---- MODULE Spec2Model ----
(***************************************************************************)
(* Model of the spearfishing conditions notifier (spearfishing_gui.py):    *)
(* the three rating functions, the aggregation and message composition of  *)
(* daily_task, send_email and the scheduler loop of start_scheduler.       *)
(*                                                                         *)
(* Values.  A JSON value / Python object is a record [t, v]:               *)
(*   t = "null"  None (also the absence marker returned by fetch_json)     *)
(*   t = "bool"  v in BOOLEAN                                              *)
(*   t = "num"   v = the number in tenths (1.5 is 15, 50 is 500)           *)
(*   t = "str"   v = the sequence of its characters                        *)
(*   t = "list"  v = the sequence of its items                             *)
(*   t = "obj"   v = a function from its keys to its values                *)
(* A call that may raise yields [exc, val]: exc = "none" when it returns.  *)
(***************************************************************************)
EXTENDS Integers, Sequences, FiniteSets, TLC

VARIABLES
    pc,           \* position of the scheduler thread
    env,          \* process environment, read-only after start
    job_unit,     \* cadence of the registered job ("none" before start)
    due,          \* a scheduled slot has arrived and the job has not run for it
    slot,         \* number of slots that have come due so far
    runs,         \* number of invocations of daily_task
    open_r,       \* daily_task: (open_rating, open_reasons)
    met_r,        \* daily_task: (met_rating, met_reasons)
    cam_rating,   \* daily_task: cam_rating
    overall,      \* daily_task: int(avg_rating)
    message,      \* daily_task: message, as its sequence of lines
    attempts,     \* SMTP connections opened by the current run
    outcome,      \* what the current run's send_email printed / did
    raised_at,    \* where an exception left daily_task ("none" if nowhere)
    fn,           \* function-level specification: the function under call
    args,         \* function-level specification: its arguments
    returned,     \* function-level specification: the call has finished
    ret           \* function-level specification: its result

runvars == <<open_r, met_r, cam_rating, overall, message, attempts, outcome, raised_at>>
schedvars == <<pc, env, job_unit, due, slot, runs>>
fnvars == <<fn, args, returned, ret>>
vars == <<pc, env, job_unit, due, slot, runs, open_r, met_r, cam_rating,
          overall, message, attempts, outcome, raised_at, fn, args, returned, ret>>

----------------------------------------------------------------------------
(* Bounds *)

MaxSlots == 2
MaxPixels == 2

----------------------------------------------------------------------------
(* JSON values and the Python operations the rating functions apply *)

JNull == [t |-> "null", v |-> 0]
JBool(b) == [t |-> "bool", v |-> b]
JNum(tenths) == [t |-> "num", v |-> tenths]
JStr(chars) == [t |-> "str", v |-> chars]
JList(items) == [t |-> "list", v |-> items]
JObj(f) == [t |-> "obj", v |-> f]
EmptyObj == JObj([k \in {} |-> JNull])

Ok(val) == [exc |-> "none", val |-> val]
Raise(exc) == [exc |-> exc, val |-> JNull]

\* bool(x)
Truthy(j) ==
    CASE j.t = "null" -> FALSE
      [] j.t = "bool" -> j.v
      [] j.t = "num" -> j.v # 0
      [] j.t = "str" -> Len(j.v) > 0
      [] j.t = "list" -> Len(j.v) > 0
      [] j.t = "obj" -> DOMAIN j.v # {}

\* kw in text, for two strings
IsSubstring(kw, text) ==
    \E i \in 0..(Len(text) - Len(kw)) : SubSeq(text, i + 1, i + Len(kw)) = kw

\* str.lower(), on the letters
UpperChars == <<"A","B","C","D","E","F","G","H","I","J","K","L","M",
                "N","O","P","Q","R","S","T","U","V","W","X","Y","Z">>
LowerChars == <<"a","b","c","d","e","f","g","h","i","j","k","l","m",
                "n","o","p","q","r","s","t","u","v","w","x","y","z">>
LowerChar(c) ==
    IF \E i \in 1..26 : UpperChars[i] = c
    THEN LowerChars[CHOOSE i \in 1..26 : UpperChars[i] = c]
    ELSE c
Lower(chars) == [i \in 1..Len(chars) |-> LowerChar(chars[i])]

\* x[key], for a string key
GetItem(j, key) ==
    CASE j.t = "obj" -> IF key \in DOMAIN j.v THEN Ok(j.v[key]) ELSE Raise("KeyError")
      [] OTHER -> Raise("TypeError")

\* x[0]
GetFirst(j) ==
    CASE j.t = "list" -> IF Len(j.v) > 0 THEN Ok(j.v[1]) ELSE Raise("IndexError")
      [] j.t = "str" -> IF Len(j.v) > 0 THEN Ok(JStr(<<j.v[1]>>)) ELSE Raise("IndexError")
      [] j.t = "obj" -> Raise("KeyError")
      [] OTHER -> Raise("TypeError")

\* x.get(key, ""), a method of dict only
DictGet(j, key) ==
    IF j.t = "obj"
    THEN Ok(IF key \in DOMAIN j.v THEN j.v[key] ELSE JStr(<<>>))
    ELSE Raise("AttributeError")

\* x.lower(), a method of str only
StrLower(j) ==
    IF j.t = "str" THEN Ok(JStr(Lower(j.v))) ELSE Raise("AttributeError")

\* x > threshold, for a numeric threshold given in tenths
TenthsOf(j) == IF j.t = "bool" THEN (IF j.v THEN 10 ELSE 0) ELSE j.v
GreaterThan(j, tenths) ==
    IF j.t \in {"num", "bool"}
    THEN Ok(JBool(TenthsOf(j) > tenths))
    ELSE Raise("TypeError")

\* a[k1][k2][0], stopping at the first subscript that raises
FirstOf(j, k1, k2) ==
    LET a == GetItem(j, k1)
        b == IF a.exc = "none" THEN GetItem(a.val, k2) ELSE a
    IN  IF b.exc = "none" THEN GetFirst(b.val) ELSE b

RECURSIVE SumSeq(_)
SumSeq(s) == IF s = <<>> THEN 0 ELSE s[1] + SumSeq(Tail(s))

Max(a, b) == IF a >= b THEN a ELSE b

\* int(n / d) for d > 0: truncation toward zero
TruncDiv(n, d) == IF n >= 0 THEN n \div d ELSE -((-n) \div d)

----------------------------------------------------------------------------
(* Reasons and message lines.  A Python string built by the program is a   *)
(* record [kind, val]: kind is its fixed text, val the value formatted     *)
(* into it.  A reason taken verbatim from the forecast payload has kind    *)
(* "forecast" and val the payload's value, which need not be a string.     *)

SwellReason(h) == [kind |-> "Swell", val |-> h]
WindReason(w) == [kind |-> "Wind", val |-> w]
RainReason == [kind |-> "Chance of rain", val |-> JNull]
ParseFailure(exc) == [kind |-> "Failed to parse data", val |-> [t |-> "exc", v |-> exc]]
NoMetServiceData == [kind |-> "No MetService data", val |-> JNull]
ForecastReason(j) == [kind |-> "forecast", val |-> j]
RatingLine(label, n) == [kind |-> label, val |-> [t |-> "int", v |-> n]]
ReasonsHeader == [kind |-> "Reasons:", val |-> JNull]

IsPyStr(line) == line.kind # "forecast" \/ line.val.t = "str"

Result(exc, rating, reasons) == [exc |-> exc, rating |-> rating, reasons |-> reasons]

----------------------------------------------------------------------------
(* compute_image_rating.  The argument is [kind, pixels]: kind "absent"    *)
(* (None), "empty" (b""), "garbage" (bytes Image.open cannot decode) or    *)
(* "image" (bytes that decode to the grayscale pixels given).              *)

\* variant: the thresholds compared with >= instead of >
compute_image_rating_AtLeast(data) ==
    IF data.kind \in {"absent", "empty"} THEN 0
    ELSE IF data.kind = "garbage" \/ Len(data.pixels) = 0 THEN 0
    ELSE LET total == SumSeq(data.pixels)
             n == Len(data.pixels)
             whole == total \div n
         IN  IF whole >= 150 THEN 90
             ELSE IF whole >= 80 THEN 70
             ELSE 40

compute_image_rating(data) ==
    IF data.kind \in {"absent", "empty"} THEN 0
    ELSE IF data.kind = "garbage" \/ Len(data.pixels) = 0 THEN 0
    ELSE LET total == SumSeq(data.pixels)
             n == Len(data.pixels)
             whole == total \div n
             frac == total % n
             AvgAbove(k) == whole > k \/ (whole = k /\ frac > 0)
         IN  IF AvgAbove(150) THEN 90
             ELSE IF AvgAbove(80) THEN 70
             ELSE 40

----------------------------------------------------------------------------
(* compute_metservice_rating *)

DAYS == "days"
FORECAST_WORD == "forecastWord"
FORECAST == "forecast"

kw_rain == <<"r","a","i","n">>
kw_shower == <<"s","h","o","w","e","r">>
kw_fine == <<"f","i","n","e">>
kw_clear == <<"c","l","e","a","r">>
kw_sunny == <<"s","u","n","n","y">>
kw_cloud == <<"c","l","o","u","d">>
kw_days == <<"d","a","y","s">>

\* variant: the fine/clear/sunny branch tested before the rain/shower branch
WordRating_FineFirst(text) ==
    IF IsSubstring(kw_fine, text) \/ IsSubstring(kw_clear, text)
       \/ IsSubstring(kw_sunny, text) THEN 90
    ELSE IF IsSubstring(kw_rain, text) \/ IsSubstring(kw_shower, text) THEN 30
    ELSE 60

WordRating(text) ==
    IF IsSubstring(kw_rain, text) \/ IsSubstring(kw_shower, text) THEN 30
    ELSE IF IsSubstring(kw_fine, text) \/ IsSubstring(kw_clear, text)
            \/ IsSubstring(kw_sunny, text) THEN 90
    ELSE IF IsSubstring(kw_cloud, text) THEN 60
    ELSE 60

\* "days" in forecast: a key of a dict, an item of a list, a substring of a str
DaysIn(forecast) ==
    CASE forecast.t = "obj" -> Ok(JBool(DAYS \in DOMAIN forecast.v))
      [] forecast.t = "list" ->
             Ok(JBool(\E i \in 1..Len(forecast.v) : forecast.v[i] = JStr(kw_days)))
      [] forecast.t = "str" -> Ok(JBool(IsSubstring(kw_days, forecast.v)))
      [] OTHER -> Raise("TypeError")

compute_metservice_rating(forecast) ==
    IF ~Truthy(forecast) THEN Result("none", 0, <<NoMetServiceData>>)
    ELSE IF DaysIn(forecast).exc # "none" THEN Result(DaysIn(forecast).exc, 0, <<>>)
    ELSE IF ~DaysIn(forecast).val.v THEN Result("none", 0, <<NoMetServiceData>>)
    ELSE
      LET days == GetItem(forecast, DAYS)
          day == IF days.exc = "none" THEN GetFirst(days.val) ELSE days
          word == IF day.exc = "none" THEN DictGet(day.val, FORECAST_WORD) ELSE day
          text == IF word.exc = "none" THEN StrLower(word.val) ELSE word
      IN  IF text.exc # "none" THEN Result(text.exc, 0, <<>>)
          ELSE Result("none", WordRating(text.val.v),
                      IF Len(text.val.v) > 0
                      THEN <<ForecastReason(DictGet(day.val, FORECAST).val)>>
                      ELSE <<>>)

----------------------------------------------------------------------------
(* compute_openmeteo_rating *)

\* one "look the value up, compare, penalise" statement group of the try body;
\* st = [exc, rating, reasons] is the state of the body so far
Penalise(st, lookup, tenths, penalty, reason) ==
    IF st.exc # "none" THEN st
    ELSE IF lookup.exc # "none" THEN [st EXCEPT !.exc = lookup.exc]
    ELSE LET cmp == GreaterThan(lookup.val, tenths)
         IN  IF cmp.exc # "none" THEN [st EXCEPT !.exc = cmp.exc]
             ELSE IF cmp.val.v
                  THEN Result("none", st.rating - penalty, Append(st.reasons, reason))
                  ELSE st

\* variant: the wind threshold compared with >= instead of >
compute_openmeteo_rating_WindAtLeast(marine, weather) ==
    LET wave_height == FirstOf(marine, "daily", "wave_height_max")
        wind_speed == FirstOf(weather, "hourly", "wind_speed_10m")
        precip == FirstOf(weather, "hourly", "precipitation_probability")
        s0 == Result("none", 100, <<>>)
        s1 == Penalise(s0, wave_height, 10, 40, SwellReason(wave_height.val))
        s2 == Penalise(s1, wind_speed, 76, 30, WindReason(wind_speed.val))
        s3 == Penalise(s2, precip, 500, 30, RainReason)
        s4 == IF s3.exc # "none"
              THEN Result("none", 0, Append(s3.reasons, ParseFailure(s3.exc)))
              ELSE s3
    IN  Result("none", Max(0, s4.rating), s4.reasons)

\* variant: the penalties added (+=) instead of subtracted (-=)
compute_openmeteo_rating_Added(marine, weather) ==
    LET wave_height == FirstOf(marine, "daily", "wave_height_max")
        wind_speed == FirstOf(weather, "hourly", "wind_speed_10m")
        precip == FirstOf(weather, "hourly", "precipitation_probability")
        s0 == Result("none", 100, <<>>)
        s1 == Penalise(s0, wave_height, 10, -40, SwellReason(wave_height.val))
        s2 == Penalise(s1, wind_speed, 77, -30, WindReason(wind_speed.val))
        s3 == Penalise(s2, precip, 500, -30, RainReason)
        s4 == IF s3.exc # "none"
              THEN Result("none", 0, Append(s3.reasons, ParseFailure(s3.exc)))
              ELSE s3
    IN  Result("none", Max(0, s4.rating), s4.reasons)

compute_openmeteo_rating(marine, weather) ==
    LET wave_height == FirstOf(marine, "daily", "wave_height_max")
        wind_speed == FirstOf(weather, "hourly", "wind_speed_10m")
        precip == FirstOf(weather, "hourly", "precipitation_probability")
        s0 == Result("none", 100, <<>>)
        s1 == Penalise(s0, wave_height, 10, 40, SwellReason(wave_height.val))
        s2 == Penalise(s1, wind_speed, 77, 30, WindReason(wind_speed.val))
        s3 == Penalise(s2, precip, 500, 30, RainReason)
        s4 == IF s3.exc # "none"
              THEN Result("none", 0, Append(s3.reasons, ParseFailure(s3.exc)))
              ELSE s3
    IN  Result("none", Max(0, s4.rating), s4.reasons)

----------------------------------------------------------------------------
(* daily_task: aggregation and composition *)

\* variant: round(sum(all_ratings) / len(all_ratings)), half up
OverallRating_Rounded(all_ratings) ==
    (2 * SumSeq(all_ratings) + Len(all_ratings)) \div (2 * Len(all_ratings))

\* int(sum(all_ratings) / len(all_ratings))
OverallRating(all_ratings) == TruncDiv(SumSeq(all_ratings), Len(all_ratings))

\* "\n".join(parts): each part is a text, i.e. a sequence of lines
RECURSIVE JoinLines(_)
JoinLines(parts) ==
    IF parts = <<>> THEN <<>> ELSE parts[1] \o JoinLines(Tail(parts))

\* variant: the "Reasons:" block appended without testing that reasons is non-empty
ComposeMessage_AlwaysBlock(open_rating, open_reasons, met_rating, met_reasons, cam, avg) ==
    LET message_lines == << <<RatingLine("Open-Meteo rating", open_rating)>>,
                            <<RatingLine("MetService rating", met_rating)>>,
                            <<RatingLine("CawthronEye rating", cam)>>,
                            <<RatingLine("Overall rating", avg)>> >>
        reasons == open_reasons \o met_reasons
        block == JoinLines(<< <<ReasonsHeader>> >> \o [i \in 1..Len(reasons) |-> <<reasons[i]>>])
    IN  IF \E i \in 1..Len(reasons) : ~IsPyStr(reasons[i])
        THEN [exc |-> "TypeError", val |-> <<>>]
        ELSE [exc |-> "none", val |-> JoinLines(Append(message_lines, block))]

\* lines 172-185; raises TypeError when a reason is not a str
ComposeMessage(open_rating, open_reasons, met_rating, met_reasons, cam, avg) ==
    LET message_lines == << <<RatingLine("Open-Meteo rating", open_rating)>>,
                            <<RatingLine("MetService rating", met_rating)>>,
                            <<RatingLine("CawthronEye rating", cam)>>,
                            <<RatingLine("Overall rating", avg)>> >>
        reasons == open_reasons \o met_reasons
        block == JoinLines(<< <<ReasonsHeader>> >> \o [i \in 1..Len(reasons) |-> <<reasons[i]>>])
    IN  IF reasons # <<>> /\ \E i \in 1..Len(reasons) : ~IsPyStr(reasons[i])
        THEN [exc |-> "TypeError", val |-> <<>>]
        ELSE [exc |-> "none",
              val |-> JoinLines(IF reasons # <<>>
                                THEN Append(message_lines, block)
                                ELSE message_lines)]

----------------------------------------------------------------------------
(* Payloads the fetches can hand to the rating functions *)

Marine(first) == JObj("daily" :> JObj("wave_height_max" :> first))
Weather(wind, precip) ==
    JObj("hourly" :> JObj("wind_speed_10m" :> wind @@ "precipitation_probability" :> precip))
WeatherNoPrecip(wind) == JObj("hourly" :> JObj("wind_speed_10m" :> wind))

WaveSamples == {JNum(5), JNum(10), JNum(11), JNum(15)}
WindSamples == {JNum(50), JNum(77), JNum(78)}
PrecipSamples == {JNum(200), JNum(500), JNum(510)}

WellFormedMarine == {Marine(JList(<<h>>)) : h \in WaveSamples}
WellFormedWeather == {Weather(JList(<<w>>), JList(<<p>>)) : w \in WindSamples, p \in PrecipSamples}

MarinePayloads ==
    WellFormedMarine \cup
    { JNull, EmptyObj, JList(<<>>), JObj("daily" :> EmptyObj), JObj("daily" :> JNull),
      Marine(JList(<<>>)), Marine(JList(<<JNull>>)), Marine(JList(<<JStr(<<"1">>)>>)) }

WeatherPayloads ==
    WellFormedWeather \cup
    { JNull, EmptyObj, JObj("hourly" :> EmptyObj),
      Weather(JList(<<>>), JList(<<JNum(200)>>)),
      Weather(JList(<<JNull>>), JList(<<JNum(510)>>)) } \cup
    { WeatherNoPrecip(JList(<<w>>)) : w \in WindSamples } \cup
    { Weather(JList(<<w>>), p) : w \in WindSamples, p \in {JList(<<>>), JList(<<JNull>>), JNull} }

txt_fine == <<"F","i","n","e">>
txt_showers == <<"S","h","o","w","e","r","s">>
txt_cloudy == <<"c","l","o","u","d","y">>
txt_windy == <<"w","i","n","d","y">>
txt_sunny_rain == <<"s","u","n","n","y"," ","r","a","i","n">>
txt_fine_cloud == <<"c","l","o","u","d"," ","f","i","n","e">>
txt_long == <<"l","o","n","g">>

WordSamples ==
    { <<>>, kw_rain, kw_clear, kw_sunny, txt_fine, txt_showers, txt_cloudy, txt_windy,
      txt_sunny_rain, txt_fine_cloud }

Days(items) == JObj(DAYS :> JList(items))
Day(word, text) == JObj(FORECAST_WORD :> word @@ FORECAST :> text)
DayNoText(word) == JObj(FORECAST_WORD :> word)
DayNoWord(text) == JObj(FORECAST :> text)

WellFormedForecast ==
    { Days(<<Day(JStr(w), JStr(txt_long))>>) : w \in WordSamples } \cup
    { Days(<<DayNoText(JStr(w))>>) : w \in WordSamples } \cup
    { Days(<<Day(JStr(w), JNull)>>) : w \in {kw_rain, <<>>} } \cup
    { Days(<<DayNoWord(JStr(txt_long))>>), Days(<<EmptyObj>>),
      Days(<<Day(JStr(kw_rain), JStr(txt_long)), Day(JStr(kw_sunny), JStr(txt_windy))>>) }

ForecastPayloads ==
    WellFormedForecast \cup
    { JNull, EmptyObj, JList(<<>>), JStr(<<>>), JNum(0), JNum(10), JStr(kw_days),
      JList(<<JStr(kw_days)>>), JObj("error" :> JStr(txt_long)),
      JObj(DAYS :> JNull), Days(<<>>), Days(<<JNull>>), Days(<<JStr(kw_rain)>>),
      Days(<<Day(JNull, JStr(txt_long))>>), Days(<<Day(JNum(10), JStr(txt_long))>>) }

PixelSamples == {0, 80, 81, 150, 151, 255}
PixelLists == UNION { [1..n -> PixelSamples] : n \in 0..MaxPixels }
NoImage == [kind |-> "absent", pixels |-> <<>>]
ImagePayloads ==
    { NoImage, [kind |-> "empty", pixels |-> <<>>], [kind |-> "garbage", pixels |-> <<>>] } \cup
    { [kind |-> "image", pixels |-> px] : px \in PixelLists }

ScoreSamples == {0, 30, 40, 41, 60, 70, 90, 100}
ScoreTriples == { <<a, b, c>> : a \in ScoreSamples, b \in ScoreSamples, c \in ScoreSamples }

----------------------------------------------------------------------------
(* Function-level specification: one call of one function on one input *)

NoArgs == [marine |-> JNull, weather |-> JNull, forecast |-> JNull,
           image |-> NoImage, ratings |-> <<0, 0, 0>>]
NoResult == Result("none", 0, <<>>)

FnCalls ==
    { [f |-> "compute_openmeteo_rating", a |-> [NoArgs EXCEPT !.marine = m, !.weather = w]] :
          m \in MarinePayloads, w \in WeatherPayloads } \cup
    { [f |-> "compute_metservice_rating", a |-> [NoArgs EXCEPT !.forecast = x]] :
          x \in ForecastPayloads } \cup
    { [f |-> "compute_image_rating", a |-> [NoArgs EXCEPT !.image = x]] : x \in ImagePayloads } \cup
    { [f |-> "overall", a |-> [NoArgs EXCEPT !.ratings = x]] : x \in ScoreTriples }

CallOpenMeteo ==
    /\ fn = "compute_openmeteo_rating" /\ ~returned
    /\ ret' = compute_openmeteo_rating(args.marine, args.weather)
    /\ returned' = TRUE
    /\ UNCHANGED <<fn, args, schedvars, runvars>>

CallMetService ==
    /\ fn = "compute_metservice_rating" /\ ~returned
    /\ ret' = compute_metservice_rating(args.forecast)
    /\ returned' = TRUE
    /\ UNCHANGED <<fn, args, schedvars, runvars>>

CallImageRating ==
    /\ fn = "compute_image_rating" /\ ~returned
    /\ ret' = Result("none", compute_image_rating(args.image), <<>>)
    /\ returned' = TRUE
    /\ UNCHANGED <<fn, args, schedvars, runvars>>

CallOverall ==
    /\ fn = "overall" /\ ~returned
    /\ ret' = Result("none", OverallRating(args.ratings), <<>>)
    /\ returned' = TRUE
    /\ UNCHANGED <<fn, args, schedvars, runvars>>

----------------------------------------------------------------------------
(* Process environment *)

kw_weekly == <<"w","e","e","k","l","y">>
kw_daily == <<"d","a","i","l","y">>
txt_Weekly == <<"W","e","e","k","l","y">>
txt_hourly == <<"h","o","u","r","l","y">>
txt_user == <<"u">>
txt_587 == <<"5","8","7">>
txt_25 == <<"2","5">>
txt_smtp == <<"s","m","t","p">>

Digits == {"0","1","2","3","4","5","6","7","8","9"}

Envs ==
    { [EMAIL_FREQUENCY |-> f, EMAIL_USER |-> JStr(txt_user), EMAIL_PASS |-> c[1],
       EMAIL_TO |-> c[2], SMTP_PORT |-> p] :
          f \in {JNull, JStr(txt_Weekly), JStr(txt_hourly)},
          c \in { <<JStr(txt_user), JStr(txt_user)>>, <<JNull, JStr(txt_user)>> },
          p \in {JNull, JStr(txt_25), JStr(txt_smtp)} }

\* os.getenv(name, default) and os.getenv(name)
GetEnv(name, default) == IF env[name].t = "null" THEN JStr(default) ELSE env[name]
GetEnvOrNone(name) == env[name]

\* int(s) returns for a decimal literal and raises ValueError otherwise
IntParses(chars) == Len(chars) > 0 /\ \A i \in 1..Len(chars) : chars[i] \in Digits

\* all([user, password, to_addr])
CredentialsConfigured ==
    /\ Truthy(GetEnvOrNone("EMAIL_USER"))
    /\ Truthy(GetEnvOrNone("EMAIL_PASS"))
    /\ Truthy(GetEnvOrNone("EMAIL_TO"))

----------------------------------------------------------------------------
(* The scheduler thread: start_scheduler, its run loop, and daily_task in  *)
(* the steps between its fetches.  The locals of daily_task are discarded  *)
(* when it returns; what send_email did stays on the log until the next    *)
(* run begins.                                                             *)

InitRun ==
    /\ open_r = NoResult /\ met_r = NoResult /\ cam_rating = 0 /\ overall = 0
    /\ message = <<>> /\ attempts = 0 /\ outcome = "none" /\ raised_at = "none"

InitSched(e) ==
    /\ pc = "start" /\ env = e /\ job_unit = "none"
    /\ due = FALSE /\ slot = 0 /\ runs = 0

DiscardLocals ==
    /\ open_r' = NoResult /\ met_r' = NoResult /\ cam_rating' = 0 /\ overall' = 0
    /\ message' = <<>>

\* lines 189-202: register the job and start the loop thread
StartScheduler ==
    /\ pc = "start"
    /\ LET frequency == Lower(GetEnv("EMAIL_FREQUENCY", kw_daily).v)
       IN  job_unit' = IF frequency = kw_weekly THEN "friday 07:00" ELSE "day 07:00"
    /\ pc' = "poll"
    /\ UNCHANGED <<env, due, slot, runs, runvars, fnvars>>

\* line 198: schedule.run_pending() calls daily_task when the job is due
RunPending ==
    /\ pc = "poll"
    /\ IF due
       THEN /\ pc' = "openmeteo"
            /\ runs' = runs + 1
            /\ DiscardLocals
            /\ attempts' = 0 /\ outcome' = "none" /\ raised_at' = "none"
       ELSE /\ pc' = "sleep"
            /\ UNCHANGED <<runs, runvars>>
    /\ UNCHANGED <<env, job_unit, due, slot, fnvars>>

\* line 199: time.sleep(60); the job's next 07:00 may arrive meanwhile
Sleep ==
    /\ pc = "sleep"
    /\ pc' = "poll"
    /\ \/ UNCHANGED <<due, slot>>
       \/ /\ ~due /\ slot < MaxSlots
          /\ due' = TRUE /\ slot' = slot + 1
    /\ UNCHANGED <<env, job_unit, runs, runvars, fnvars>>

\* lines 168-169
OpenMeteoStep ==
    /\ pc = "openmeteo"
    /\ \E marine \in MarinePayloads, weather \in WeatherPayloads :
          open_r' = compute_openmeteo_rating(marine, weather)
    /\ pc' = "metservice"
    /\ UNCHANGED <<env, job_unit, due, slot, runs, met_r, cam_rating, overall, message,
                   attempts, outcome, raised_at, fnvars>>

\* lines 170-171; an exception leaves daily_task, run_pending and the loop
MetServiceStep ==
    /\ pc = "metservice"
    /\ \E forecast \in ForecastPayloads :
          LET r == compute_metservice_rating(forecast)
          IN  IF r.exc = "none"
              THEN /\ met_r' = r
                   /\ pc' = "webcam"
                   /\ UNCHANGED <<open_r, raised_at>>
              ELSE /\ pc' = "dead"
                   /\ raised_at' = "compute_metservice_rating"
                   /\ open_r' = NoResult
                   /\ UNCHANGED met_r
    /\ UNCHANGED <<env, job_unit, due, slot, runs, cam_rating, overall, message,
                   attempts, outcome, fnvars>>

\* lines 172-185
WebcamStep ==
    /\ pc = "webcam"
    /\ \E image_data \in ImagePayloads :
          LET cam == compute_image_rating(image_data)
              avg == OverallRating(<<open_r.rating, met_r.rating, cam>>)
              msg == ComposeMessage(open_r.rating, open_r.reasons,
                                    met_r.rating, met_r.reasons, cam, avg)
          IN  IF msg.exc = "none"
              THEN /\ cam_rating' = cam
                   /\ overall' = avg
                   /\ message' = msg.val
                   /\ pc' = "send"
                   /\ UNCHANGED <<open_r, met_r, raised_at>>
              ELSE /\ pc' = "dead"
                   /\ raised_at' = "daily_task"
                   /\ DiscardLocals
    /\ UNCHANGED <<env, job_unit, due, slot, runs, attempts, outcome, fnvars>>

\* variant: the except clause of send_email logs and re-raises
SendEmail_Reraise ==
    /\ pc = "send"
    /\ IF ~IntParses(GetEnv("SMTP_PORT", txt_587).v)
       THEN /\ pc' = "dead"
            /\ raised_at' = "send_email"
            /\ UNCHANGED <<attempts, outcome, due>>
       ELSE IF ~CredentialsConfigured
       THEN /\ pc' = "sleep"
            /\ due' = FALSE
            /\ outcome' = "Email credentials not configured."
            /\ UNCHANGED <<attempts, raised_at>>
       ELSE /\ attempts' = attempts + 1
            /\ \/ /\ outcome' = "sent"
                  /\ pc' = "sleep"
                  /\ due' = FALSE
                  /\ UNCHANGED raised_at
               \/ /\ outcome' = "Email sending failed"
                  /\ pc' = "dead"
                  /\ raised_at' = "send_email"
                  /\ UNCHANGED due
    /\ DiscardLocals
    /\ UNCHANGED <<env, job_unit, slot, runs, fnvars>>

\* line 186 and lines 144-164; on return the job is rescheduled and the loop sleeps
SendEmail ==
    /\ pc = "send"
    /\ IF ~IntParses(GetEnv("SMTP_PORT", txt_587).v)
       THEN /\ pc' = "dead"
            /\ raised_at' = "send_email"
            /\ UNCHANGED <<attempts, outcome, due>>
       ELSE /\ pc' = "sleep"
            /\ due' = FALSE
            /\ UNCHANGED raised_at
            /\ IF ~CredentialsConfigured
               THEN /\ outcome' = "Email credentials not configured."
                    /\ UNCHANGED attempts
               ELSE /\ attempts' = attempts + 1
                    /\ outcome' \in {"sent", "Email sending failed"}
    /\ DiscardLocals
    /\ UNCHANGED <<env, job_unit, slot, runs, fnvars>>

----------------------------------------------------------------------------
(* Specifications *)

Init ==
    /\ \E e \in Envs : InitSched(e)
    /\ InitRun
    /\ fn = "none" /\ args = NoArgs /\ returned = FALSE /\ ret = NoResult

Next ==
    \/ StartScheduler
    \/ RunPending
    \/ Sleep
    \/ OpenMeteoStep
    \/ MetServiceStep
    \/ WebcamStep
    \/ SendEmail

Spec == Init /\ [][Next]_vars

DefaultEnv ==
    [EMAIL_FREQUENCY |-> JNull, EMAIL_USER |-> JStr(txt_user), EMAIL_PASS |-> JStr(txt_user),
     EMAIL_TO |-> JStr(txt_user), SMTP_PORT |-> JNull]

InitFn ==
    /\ InitSched(DefaultEnv)
    /\ InitRun
    /\ \E c \in FnCalls : fn = c.f /\ args = c.a
    /\ returned = FALSE /\ ret = NoResult

NextFn ==
    \/ CallOpenMeteo
    \/ CallMetService
    \/ CallImageRating
    \/ CallOverall

SpecFn == InitFn /\ [][NextFn]_vars

----------------------------------------------------------------------------
(* Properties *)

Range(seq) == { seq[i] : i \in 1..Len(seq) }
Indicator(b) == IF b THEN 1 ELSE 0

OpenMeteoReturned == fn = "compute_openmeteo_rating" /\ returned
MetServiceReturned == fn = "compute_metservice_rating" /\ returned
ImageReturned == fn = "compute_image_rating" /\ returned
OverallReturned == fn = "overall" /\ returned

WellFormedOpenMeteoArgs ==
    args.marine \in WellFormedMarine /\ args.weather \in WellFormedWeather

\* the three values of a well-formed argument pair, in tenths
ArgWave == args.marine.v["daily"].v["wave_height_max"].v[1].v
ArgWind == args.weather.v["hourly"].v["wind_speed_10m"].v[1].v
ArgPrecip == args.weather.v["hourly"].v["precipitation_probability"].v[1].v

\* C1: no run of daily_task is left by an exception before the hand-off to
\* send_email, whatever payloads the fetches return.
C1_NoRatingErrorAbortsRun ==
    raised_at \notin {"compute_metservice_rating", "daily_task"}

\* C2: when a required field of the marine/weather payloads is missing or of
\* the wrong shape, compute_openmeteo_rating returns score 0 and exactly one
\* reason, the parse failure.
C2_ParseFailureIsTheOnlyReason ==
    (OpenMeteoReturned /\ ~WellFormedOpenMeteoArgs) =>
        /\ ret.exc = "none"
        /\ ret.rating = 0
        /\ Len(ret.reasons) = 1
        /\ ret.reasons[1].kind = "Failed to parse data"

\* C3: for well-formed (h, w, p) the score is
\* 100 - 40*[h > 1.0] - 30*[w > 7.7] - 30*[p > 50], and when all three trigger
\* it is 0 with the three reasons swell, wind, rain in that order.
C3_PenaltiesAreIndependent ==
    (OpenMeteoReturned /\ WellFormedOpenMeteoArgs) =>
        /\ ret.exc = "none"
        /\ ret.rating = 100 - 40 * Indicator(ArgWave > 10)
                            - 30 * Indicator(ArgWind > 77)
                            - 30 * Indicator(ArgPrecip > 500)
        /\ (ArgWave > 10 /\ ArgWind > 77 /\ ArgPrecip > 500) =>
              /\ ret.rating = 0
              /\ Len(ret.reasons) = 3
              /\ ret.reasons[1] = SwellReason(JNum(ArgWave))
              /\ ret.reasons[2] = WindReason(JNum(ArgWind))
              /\ ret.reasons[3] = RainReason

C3_Witness ==
    /\ OpenMeteoReturned /\ WellFormedOpenMeteoArgs
    /\ ArgWave = 15 /\ ArgWind = 78 /\ ArgPrecip = 510
    /\ ret.rating = 0 /\ Len(ret.reasons) = 3

\* C4: every score of a run (marine/weather, forecast text, image, overall)
\* is an integer between 0 and 100.
C4_ScoresInRange ==
    /\ open_r.rating \in 0..100
    /\ met_r.rating \in 0..100
    /\ cam_rating \in 0..100
    /\ overall \in 0..100

C4_Witness ==
    /\ pc = "send"
    /\ open_r.rating = 100 /\ met_r.rating = 90 /\ cam_rating = 90 /\ overall = 93

\* the first day of a well-formed forecast argument, its forecast word and text
ArgDay == args.forecast.v[DAYS].v[1]
ArgWord == IF FORECAST_WORD \in DOMAIN ArgDay.v THEN ArgDay.v[FORECAST_WORD].v ELSE <<>>
ArgText == IF FORECAST \in DOMAIN ArgDay.v THEN ArgDay.v[FORECAST] ELSE JStr(<<>>)
WordHas(kws) == \E kw \in kws : IsSubstring(kw, Lower(ArgWord))

\* C5: for a well-formed first day the lowercased forecast word is scored by
\* the first matching branch, rain/shower 30, fine/clear/sunny 90, cloud 60,
\* otherwise 60; the reasons are the first day's forecast text when the word
\* is non-empty and empty otherwise.
C5_KeywordPrecedence ==
    (MetServiceReturned /\ args.forecast \in WellFormedForecast) =>
        /\ ret.exc = "none"
        /\ WordHas({kw_rain, kw_shower}) => ret.rating = 30
        /\ (~WordHas({kw_rain, kw_shower}) /\ WordHas({kw_fine, kw_clear, kw_sunny}))
              => ret.rating = 90
        /\ ~WordHas({kw_rain, kw_shower, kw_fine, kw_clear, kw_sunny}) => ret.rating = 60
        /\ ArgWord = txt_sunny_rain => ret.rating = 30
        /\ ArgWord # <<>> => ret.reasons = <<ForecastReason(ArgText)>>
        /\ ArgWord = <<>> => ret.reasons = <<>>

C5_Witness ==
    /\ MetServiceReturned
    /\ args.forecast = Days(<<Day(JStr(txt_sunny_rain), JStr(txt_long))>>)
    /\ ret.rating = 30
    /\ ret.reasons = <<ForecastReason(JStr(txt_long))>>

\* C6: the overall score is the mean of the three source scores truncated to
\* an integer, not rounded: 63 for (90, 60, 40) and for (90, 60, 41), 80 for
\* (60, 90, 90); the third (webcam) score is averaged in also when it is 0.
C6_OverallIsTruncatedMean ==
    OverallReturned =>
        LET total == args.ratings[1] + args.ratings[2] + args.ratings[3]
        IN  /\ 3 * ret.rating <= total
            /\ total < 3 * ret.rating + 3
            /\ args.ratings = <<90, 60, 40>> => ret.rating = 63
            /\ args.ratings = <<90, 60, 41>> => ret.rating = 63
            /\ args.ratings = <<60, 90, 90>> => ret.rating = 80
            /\ args.ratings = <<90, 60, 0>> => ret.rating = 50

C6_Witness ==
    OverallReturned /\ args.ratings = <<90, 60, 41>> /\ ret.rating = 63

\* C7: compute_image_rating is a step function of the mean intensity m:
\* 90 for m > 150, 70 for 80 < m <= 150, 40 for m <= 80; 0 for absent, empty
\* or undecodable input.
C7_ImageRatingSteps ==
    ImageReturned =>
        LET px == args.image.pixels
            total == SumSeq(px)
            n == Len(px)
        IN  IF args.image.kind # "image" \/ n = 0 THEN ret.rating = 0
            ELSE /\ total > 150 * n => ret.rating = 90
                 /\ (80 * n < total /\ total <= 150 * n) => ret.rating = 70
                 /\ total <= 80 * n => ret.rating = 40

C7_Witness ==
    /\ ImageReturned /\ args.image.kind = "image"
    /\ args.image.pixels = <<150, 150>>
    /\ ret.rating = 70

\* C8: the composed body is the Open-Meteo, MetService, webcam and Overall
\* rating lines in that order, followed by a "Reasons:" block iff a reason
\* was collected; the block lists the marine/weather reasons, then the
\* forecast reasons, one per line, and nothing else.
C8_MessageLayout ==
    pc = "send" =>
        LET reasons == open_r.reasons \o met_r.reasons
        IN  /\ Len(message) >= 4
            /\ message[1] = RatingLine("Open-Meteo rating", open_r.rating)
            /\ message[2] = RatingLine("MetService rating", met_r.rating)
            /\ message[3] = RatingLine("CawthronEye rating", cam_rating)
            /\ message[4] = RatingLine("Overall rating", overall)
            /\ (ReasonsHeader \in Range(message)) <=> (reasons # <<>>)
            /\ reasons = <<>> => Len(message) = 4
            /\ reasons # <<>> =>
                  /\ message[5] = ReasonsHeader
                  /\ SubSeq(message, 6, Len(message)) = reasons

C8_Witness ==
    /\ pc = "send"
    /\ open_r.reasons # <<>> /\ met_r.reasons # <<>>
    /\ Len(message) = 5 + Len(open_r.reasons) + Len(met_r.reasons)

\* forecast payloads that are absent, empty or lack the expected structure
LacksStructure(forecast) ==
    \/ forecast \in {JNull, EmptyObj}
    \/ forecast.t = "obj" /\ DAYS \notin DOMAIN forecast.v
    \/ forecast = Days(<<>>)
    \/ forecast \in {Days(<<DayNoWord(JStr(txt_long))>>), Days(<<EmptyObj>>)}

\* C9: an absent or empty forecast payload, or one lacking the expected
\* structure, yields score 0 with the single reason "No MetService data".
C9_NoDataFloor ==
    (MetServiceReturned /\ LacksStructure(args.forecast)) =>
        ret = Result("none", 0, <<NoMetServiceData>>)

DeliveryFailed ==
    outcome \in {"Email sending failed", "Email credentials not configured."}

\* C10: a run whose delivery fails opens at most one SMTP connection and
\* completes, the scheduler loop stays alive, and the loop's next poll at a
\* due slot invokes the pipeline again.
C10_FailedDeliveryKeepsScheduler ==
    /\ [](DeliveryFailed =>
            /\ attempts <= 1
            /\ raised_at = "none"
            /\ pc \in {"sleep", "poll"})
    /\ [][(DeliveryFailed /\ pc = "poll" /\ due) =>
            (pc' = "openmeteo" /\ runs' = runs + 1)]_vars

C10_Witness ==
    /\ outcome = "Email sending failed" /\ attempts = 1
    /\ pc = "poll" /\ due /\ runs >= 1

====
